---- MODULE Spec2Model ----
(***************************************************************************)
(* zapid: random identifiers over a fixed 62-character alphabet.           *)
(*                                                                         *)
(* The model follows the two source modules:                               *)
(*   - the generator (validateLength, calculateCollisionProbability,       *)
(*     getSafetyLevel, getRecommendation, generate, generateWithInfo),     *)
(*   - the crypto helpers (isBrowser, getCrypto, getRandomBytes,           *)
(*     getRandomInt).                                                      *)
(*                                                                         *)
(* A public call runs from its Call* action to the state in which pc is    *)
(* "idle" again.  The call is cut into steps at the only points where the  *)
(* program waits for something it does not decide itself: the platform's   *)
(* random facility.  Each Draw step is one invocation of getRandomBytes by *)
(* getRandomInt (or by the caller) together with all the code that runs    *)
(* until the next invocation or until the public call returns or throws.   *)
(*                                                                         *)
(* JavaScript values are tagged records [kind, v].  Numbers that can       *)
(* exceed 31 bits (the bound of getRandomInt) are big-endian sequences of  *)
(* bytes, so that the 32-bit behaviour of <<, | and & is kept.             *)
(***************************************************************************)
EXTENDS Integers, Sequences, FiniteSets, TLC

----------------------------------------------------------------------------
(* The objects of the generator module that outlive a call.                *)

VARIABLES
    constants,     \* the properties of the generator's CONSTANTS object
    held           \* the snapshot of getConfig the caller holds, if any

----------------------------------------------------------------------------
(* Arithmetic on naturals written as big-endian byte sequences.            *)

\* Leading zero bytes removed (<< >> is zero).
RECURSIVE Norm(_)
Norm(bs) ==
    IF bs = << >> THEN << >>
    ELSE IF Head(bs) = 0 THEN Norm(Tail(bs)) ELSE bs

\* The byte sequence of a natural below 2^31.
RECURSIVE Bytes(_)
Bytes(n) ==
    IF n = 0 THEN << >> ELSE Append(Bytes(n \div 256), n % 256)

\* The natural a short byte sequence stands for (at most three significant bytes).
RECURSIVE ToNat(_)
ToNat(bs) ==
    IF bs = << >> THEN 0
    ELSE ToNat(SubSeq(bs, 1, Len(bs) - 1)) * 256 + bs[Len(bs)]

\* bs padded on the left with zero bytes to n bytes, or cut to its last n.
RECURSIVE LastBytes(_, _)
LastBytes(bs, n) ==
    IF Len(bs) >= n THEN SubSeq(bs, Len(bs) - n + 1, Len(bs))
    ELSE LastBytes(<<0>> \o bs, n)

\* a < b for naturals in byte form.
RECURSIVE LessSameLen(_, _)
LessSameLen(a, b) ==
    IF a = << >> THEN FALSE
    ELSE IF Head(a) # Head(b) THEN Head(a) < Head(b)
    ELSE LessSameLen(Tail(a), Tail(b))

Less(a, b) ==
    LET x == Norm(a)
        y == Norm(b)
    IN  IF Len(x) # Len(y) THEN Len(x) < Len(y) ELSE LessSameLen(x, y)

\* bs - 1, for bs > 0.
RECURSIVE Dec(_)
Dec(bs) ==
    LET n == Len(bs)
    IN  IF bs[n] > 0 THEN [bs EXCEPT ![n] = bs[n] - 1]
        ELSE Append(Dec(SubSeq(bs, 1, n - 1)), 255)

\* Number of bits of a byte, and of a natural in byte form.
RECURSIVE BitLen8(_)
BitLen8(b) == IF b = 0 THEN 0 ELSE 1 + BitLen8(b \div 2)

BitLen(bs) ==
    LET x == Norm(bs)
    IN  IF x = << >> THEN 0 ELSE 8 * (Len(x) - 1) + BitLen8(Head(x))

\* 2^k for small k.
RECURSIVE Pow2(_)
Pow2(k) == IF k = 0 THEN 1 ELSE 2 * Pow2(k - 1)

\* Bitwise and of two bytes.
RECURSIVE And8(_, _)
And8(a, b) ==
    IF a = 0 \/ b = 0 THEN 0
    ELSE 2 * And8(a \div 2, b \div 2) + (IF a % 2 = 1 /\ b % 2 = 1 THEN 1 ELSE 0)

\* Bitwise and of two 32-bit words given as four bytes each.
And32(a, b) == [j \in 1..4 |-> And8(a[j], b[j])]

----------------------------------------------------------------------------
(* Arithmetic on naturals written as big-endian digit sequences in a base *)
(* (10, or 10000 to keep the sequences short), for Math.pow(62, length)    *)
(* and the quotient of the birthday formula, which do not fit 31 bits.     *)

RECURSIVE DigitsOf(_)
DigitsOf(n) ==
    IF n < 10 THEN <<n>> ELSE Append(DigitsOf(n \div 10), n % 10)

RECURSIVE NatOf(_)
NatOf(ds) ==
    IF ds = << >> THEN 0
    ELSE NatOf(SubSeq(ds, 1, Len(ds) - 1)) * 10 + ds[Len(ds)]

RECURSIVE StripZeros(_)
StripZeros(ds) ==
    IF Len(ds) > 1 /\ Head(ds) = 0 THEN StripZeros(Tail(ds)) ELSE ds

\* ds * m + carry in the given base, for a small factor m.
RECURSIVE MulCarry(_, _, _, _)
MulCarry(ds, m, carry, base) ==
    IF ds = << >> THEN <<carry>>
    ELSE LET t == ds[Len(ds)] * m + carry
         IN  Append(MulCarry(SubSeq(ds, 1, Len(ds) - 1), m, t \div base, base), t % base)

\* The carry out of the top digit is written in the base as well.
RECURSIVE Rebase(_, _)
Rebase(ds, base) ==
    IF Head(ds) < base THEN ds
    ELSE Rebase(<<Head(ds) \div base, Head(ds) % base>> \o Tail(ds), base)

MulSmall(ds, m, base) == StripZeros(Rebase(MulCarry(ds, m, 0, base), base))

\* floor(ds / d) in the given base, for a small divisor d.
RECURSIVE DivRem(_, _, _, _)
DivRem(ds, d, rem, base) ==
    IF ds = << >> THEN << >>
    ELSE LET t == rem * base + Head(ds)
         IN  <<t \div d>> \o DivRem(Tail(ds), d, t % d, base)

DivSmall(ds, d, base) == StripZeros(<<0>> \o DivRem(ds, d, 0, base))

\* b^e in base 10000: Math.pow(b, e) for naturals, as e products from 1.
\* (Comparing acc makes TLC compute each product before the next one.)
RECURSIVE PowAcc(_, _, _)
PowAcc(acc, b, e) ==
    IF e = 0 \/ acc = << >> THEN acc ELSE PowAcc(MulSmall(acc, b, 10000), b, e - 1)

PowLimbs(b, e) == PowAcc(<<1>>, b, e)

\* floor(ds / b^e): e divisions by b (nested floors of integers are exact).
RECURSIVE DivPow(_, _, _)
DivPow(ds, b, e) ==
    IF e = 0 \/ ds = <<0>> THEN ds ELSE DivPow(DivSmall(ds, b, 10), b, e - 1)

\* The characters of a natural, and of a natural padded to w digits.
DigitChar(d) == <<"0", "1", "2", "3", "4", "5", "6", "7", "8", "9">>[d + 1]

NatChars(n) == [j \in 1..Len(DigitsOf(n)) |-> DigitChar(DigitsOf(n)[j])]

PadChars(n, w) ==
    LET ds == DigitsOf(n)
    IN  [j \in 1..w |-> IF j <= w - Len(ds) THEN "0" ELSE DigitChar(ds[j - (w - Len(ds))])]

----------------------------------------------------------------------------
(* The generator's constants: the values the CONSTANTS object is built     *)
(* with.  The code reads them from the object, which is the variable       *)
(* constants.                                                              *)

DEFAULT_LENGTH == 7
MIN_LENGTH == 7
MAX_LENGTH == 32

CHARSET ==
    << "a", "b", "c", "d", "e", "f", "g", "h", "i", "j", "k", "l", "m",
       "n", "o", "p", "q", "r", "s", "t", "u", "v", "w", "x", "y", "z",
       "A", "B", "C", "D", "E", "F", "G", "H", "I", "J", "K", "L", "M",
       "N", "O", "P", "Q", "R", "S", "T", "U", "V", "W", "X", "Y", "Z",
       "0", "1", "2", "3", "4", "5", "6", "7", "8", "9" >>

\* The default of calculateCollisionProbability's numIds parameter.
NUM_IDS == 100000

\* Probabilities are fixed-point numbers: the integer p stands for
\* p / PROB_SCALE.  The thresholds 0.001 and 0.1 are exact at this scale.
PROB_SCALE == 10 * 1000 * 1000

COLLISION_THRESHOLDS ==
    [safe |-> PROB_SCALE \div 1000, moderate |-> PROB_SCALE \div 10]

\* const CONSTANTS = { ... }
CONSTANTS_OBJECT ==
    [DEFAULT_LENGTH |-> DEFAULT_LENGTH, MIN_LENGTH |-> MIN_LENGTH,
     MAX_LENGTH |-> MAX_LENGTH, CHARSET |-> CHARSET]

----------------------------------------------------------------------------
(* JavaScript values: [kind, v].  kind "int" is the integer v, "frac" is   *)
(* v + 1/2; the other kinds carry no number.                               *)

Int_(n) == [kind |-> "int", v |-> n]
Other(k) == [kind |-> k, v |-> 0]

\* Number.isInteger: no coercion, so only a number that is an integer passes.
NumberIsInteger(x) == x.kind = "int"

\* The default applied only to a missing argument, not to undefined.
DefaultParam_AbsentOnly(x, dflt) ==
    IF x.kind = "absent" THEN Int_(dflt) ELSE x

\* A default parameter applies when the argument is missing or undefined.
DefaultParam(x, dflt) ==
    IF x.kind \in {"absent", "undefined"} THEN Int_(dflt) ELSE x

\* An error object: its class and its message.
Err(name, msg) == [name |-> name, message |-> msg]

NoErr == Err("", "")

\* validateLength with the range checks before the integer check.
validateLength_MinFirst(length) ==
    IF length.v < MIN_LENGTH
    THEN Err("ZapidValidationError", "ID length must be at least 7 characters")
    ELSE IF length.v > MAX_LENGTH
    THEN Err("ZapidValidationError", "ID length cannot exceed 32 characters")
    ELSE IF ~NumberIsInteger(length)
    THEN Err("ZapidValidationError", "ID length must be an integer")
    ELSE NoErr

\* validateLength without the upper limit.
validateLength_NoMax(length) ==
    IF ~NumberIsInteger(length)
    THEN Err("ZapidValidationError", "ID length must be an integer")
    ELSE IF length.v < MIN_LENGTH
    THEN Err("ZapidValidationError", "ID length must be at least 7 characters")
    ELSE NoErr

\* validateLength: the error it throws, or NoErr when it returns.
validateLength(length) ==
    IF ~NumberIsInteger(length)
    THEN Err("ZapidValidationError", "ID length must be an integer")
    ELSE IF length.v < constants.MIN_LENGTH
    THEN Err("ZapidValidationError",
             "ID length must be at least " \o ToString(constants.MIN_LENGTH) \o " characters")
    ELSE IF length.v > constants.MAX_LENGTH
    THEN Err("ZapidValidationError",
             "ID length cannot exceed " \o ToString(constants.MAX_LENGTH) \o " characters")
    ELSE NoErr

----------------------------------------------------------------------------
(* The collision risk model.                                               *)

\* 1 - Math.exp(-x) at PROB_SCALE, by the series x - x^2/2 + x^3/6, for the
\* arguments a validated length produces (x < 0.0046: the next term is below
\* 2e-11 and the products fit 31 bits).
OneMinusExpNeg(x) ==
    LET sq == (x * x) \div PROB_SCALE
    IN  x - sq \div 2 + ((sq * x) \div PROB_SCALE) \div 6

\* The probability of the length mirrored in [MIN_LENGTH, MAX_LENGTH].
calculateCollisionProbability_Reversed(length) ==
    LET pairs == MulSmall(DigitsOf(NUM_IDS), NUM_IDS - 1, 10)
        scaled == MulSmall(pairs, PROB_SCALE, 10)
        x == NatOf(DivPow(DivSmall(scaled, 2, 10), Len(constants.CHARSET),
                          MIN_LENGTH + MAX_LENGTH - length))
    IN  OneMinusExpNeg(x)

\* calculateCollisionProbability(length): with space = 62^length,
\* 1 - exp(-numIds (numIds - 1) / (2 space)), at PROB_SCALE.
calculateCollisionProbability(length) ==
    LET pairs == MulSmall(DigitsOf(NUM_IDS), NUM_IDS - 1, 10)
        scaled == MulSmall(pairs, PROB_SCALE, 10)
        x == NatOf(DivPow(DivSmall(scaled, 2, 10), Len(constants.CHARSET), length))
    IN  OneMinusExpNeg(x)

\* getSafetyLevel with > for >=.
getSafetyLevel_Strict(probability) ==
    IF probability > COLLISION_THRESHOLDS.moderate THEN "high-risk"
    ELSE IF probability > COLLISION_THRESHOLDS.safe THEN "moderate"
    ELSE "safe"

getSafetyLevel(probability) ==
    IF probability >= COLLISION_THRESHOLDS.moderate THEN "high-risk"
    ELSE IF probability >= COLLISION_THRESHOLDS.safe THEN "moderate"
    ELSE "safe"

\* Number.prototype.toExponential(2) of a natural given in base 10000:
\* three significant digits, rounded half up, and the decimal exponent.
toExponential2(limbs) ==
    LET top == DigitsOf(Head(limbs))
        n == Len(top) + 4 * (Len(limbs) - 1)
        next == IF Len(limbs) > 1 THEN limbs[2] ELSE 0
        padded == top \o <<next \div 1000, (next \div 100) % 10, (next \div 10) % 10>>
        head == 100 * padded[1] + 10 * padded[2] + padded[3]
        up == IF padded[4] >= 5 THEN head + 1 ELSE head
        mant == IF up = 1000 THEN 100 ELSE up
        e == IF up = 1000 THEN n ELSE n - 1
    IN  <<DigitChar(mant \div 100), ".", DigitChar((mant \div 10) % 10),
          DigitChar(mant % 10), "e", "+">> \o NatChars(e)

\* SAFETY_RECOMMENDATIONS: the text of a tier, and the number the 'safe'
\* text ends with (empty for the other tiers, which ignore combinations).
SAFETY_RECOMMENDATIONS(safety, combinations) ==
    CASE safety = "safe" ->
           [text |-> "Safe for up to 100k IDs. Total possible combinations: ",
            number |-> toExponential2(combinations)]
      [] safety = "moderate" ->
           [text |-> "Moderate collision risk. Consider increasing length for large-scale use.",
            number |-> << >>]
      [] OTHER ->
           [text |-> "High collision risk. Increase length or reduce number of IDs.",
            number |-> << >>]

\* getRecommendation that ignores the tier.
getRecommendation_AlwaysSafe(length, safety) ==
    SAFETY_RECOMMENDATIONS("safe", PowLimbs(Len(constants.CHARSET), length))

getRecommendation(length, safety) ==
    SAFETY_RECOMMENDATIONS(safety, PowLimbs(Len(constants.CHARSET), length))

\* Number.prototype.toFixed(3) of probability * 100, followed by "%".
PercentString(probability) ==
    LET unit == PROB_SCALE \div 100000
        milli == (probability + unit \div 2) \div unit
    IN  NatChars(milli \div 1000) \o <<".">> \o PadChars(milli % 1000, 3) \o <<"%">>

----------------------------------------------------------------------------
(* The crypto helpers.                                                     *)

\* The bound of getRandomInt: an integer (its magnitude in bytes, and its
\* sign) or a value of another kind.
Bound(bs) == [kind |-> "int", neg |-> FALSE, v |-> bs]
NegBound(bs) == [kind |-> "int", neg |-> TRUE, v |-> bs]
OtherBound(k) == [kind |-> k, neg |-> FALSE, v |-> << >>]

\* An isBrowser that never detects the browser facility.
isBrowser_Never(w) == FALSE

\* typeof window !== 'undefined' && typeof window.crypto !== 'undefined'
isBrowser(w) == w

\* getCrypto: which implementation it returns, or that it throws.
getCrypto(w, n) ==
    IF isBrowser(w) THEN "window.crypto"
    ELSE IF n THEN "crypto"
    ELSE "throw"

NO_CRYPTO_MESSAGE ==
    "No secure crypto implementation available. Ensure you are in a supported environment."

\* The catch of getRandomBytes that throws the error again as it came.
Wrapped_Rethrown(message) == Err("Error", message)

\* The catch of getRandomBytes: the error it throws for the one it caught.
Wrapped(message) ==
    Err("CryptoGenerationError", "Failed to generate random bytes: " \o message)

\* The argument check of getRandomBytes with < 0 for < 1.
getRandomBytes_Invalid_AllowsZero(length) == ~NumberIsInteger(length) \/ length.v < 0

\* The argument check of getRandomBytes.
getRandomBytes_Invalid(length) == ~NumberIsInteger(length) \/ length.v < 1

\* The argument check of getRandomInt.
getRandomInt_Invalid(max) ==
    ~NumberIsInteger(max) \/ max.neg \/ Norm(max.v) = << >>

\* getRandomInt without its special case.
getRandomInt_IsOne_Never(max) == FALSE

\* The special case max === 1.
getRandomInt_IsOne(max) == Norm(max.v) = <<1>>

\* Math.ceil(Math.log2(max)), for an integer max >= 1: the number of bits of max - 1.
bitsNeeded(max) == BitLen(Dec(Norm(max.v)))

\* Math.ceil(bitsNeeded / 8)
bytesNeeded(max) == (bitsNeeded(max) + 7) \div 8

\* (1 << bitsNeeded) - 1 as the 32-bit word that & sees.  The shift count is
\* taken modulo 32, and ToInt32 of 2^s - 1 is 2^s - 1 for every s in 0..31
\* (for s = 31, 1 << 31 is -2^31 and -2^31 - 1 is 2^31 - 1 modulo 2^32).
mask(max) ==
    LET s == bitsNeeded(max) % 32
        ones(j) == IF s - 8 * (4 - j) >= 8 THEN 8
                   ELSE IF s - 8 * (4 - j) <= 0 THEN 0
                   ELSE s - 8 * (4 - j)
    IN  [j \in 1..4 |-> Pow2(ones(j)) - 1]

\* num = (num << 8) | bytes[i] over all the bytes: a 32-bit word, which keeps
\* the last four bytes.
pack(bytes) == LastBytes(bytes, 4)

\* The packed word with no mask applied.
masked_Unmasked(bytes, max) == Norm(pack(bytes))

\* num & mask.  The top bit of the mask is never set, so the result is a
\* non-negative number: the word read as a natural.
masked(bytes, max) == Norm(And32(pack(bytes), mask(max)))

\* num < max
accepted(bytes, max) == Less(masked(bytes, max), max.v)

\* What getRandomInt does before its loop: throw, return 0, or loop.
getRandomInt_Entry(max) ==
    IF getRandomInt_Invalid(max) THEN "throw"
    ELSE IF getRandomInt_IsOne(max) THEN "zero"
    ELSE "loop"

\* The loop header with <= for <.
generate_Continues_OffByOne(i, length) == i <= length

\* The loop header of generate: for (let i = 0; i < length; i++)
generate_Continues(i, length) == i < length

----------------------------------------------------------------------------
(* The platform's random facility, as the program sees it: the bytes it    *)
(* will deliver during one public call are those of a tape (seed, step),   *)
(* byte k being seed + k * step modulo 256, and any invocation may throw.  *)

Seeds == {0, 30, 60, 62, 250}
Steps == {1, 64}
FacilityErrors == {"Crypto generation failed"}

FacilityBytes(s, st, n) == [j \in 1..n |-> (s + (j - 1) * st) % 256]

----------------------------------------------------------------------------
(* The arguments the callers pass.                                         *)

MaxByteCount == 5

\* No call is followed beyond this many invocations of getRandomBytes (a
\* generate(32) on a tape that is not stuck needs at most 34).
MaxDraws == 36
SmallBoundMax == 9

NonIntegers ==
    {[kind |-> "frac", v |-> n] : n \in {-3, 0, 6, 7, 32, 40}}
    \cup {Other(k) : k \in {"nan", "+inf", "-inf", "string", "boolean",
                             "object", "array", "null"}}

LengthArgs ==
    {Int_(n) : n \in (-1..1) \cup ((MIN_LENGTH - 2)..(MAX_LENGTH + 2))}
    \cup NonIntegers \cup {Other("undefined"), Other("absent")}

ByteCountArgs ==
    {Int_(n) : n \in -1..MaxByteCount} \cup NonIntegers

BoundArgs ==
    {Bound(Bytes(n)) : n \in (0..SmallBoundMax) \cup (61..65) \cup {255, 256, 257, 65536, 65537}}
    \cup {Bound(bs) : bs \in {<<1, 0, 0, 0>>, <<64, 0, 0, 0>>, <<64, 0, 0, 1>>,
                              <<128, 0, 0, 0>>, <<128, 0, 0, 1>>,
                              <<1, 0, 0, 0, 0>>, <<1, 0, 0, 0, 1>>}}
    \cup {NegBound(<<1>>), OtherBound("frac"), OtherBound("nan"),
          OtherBound("+inf"), OtherBound("-inf")}

----------------------------------------------------------------------------
(* The state of a call, and the platform.                                  *)

VARIABLES
    window,        \* window.crypto is defined
    nodeCrypto,    \* require('crypto') succeeds
    seed, step,    \* the facility's tape
    pc,            \* "idle"; "draw": about to invoke getRandomBytes; "done": the
                   \* call has returned or thrown and the caller holds the result
    op,            \* the public operation in progress, or the last one
    arg,           \* its length or byte-count argument
    max,           \* the bound of the getRandomInt in progress
    length,        \* generate's length parameter, after the default
    id,            \* generate's id
    i,             \* generate's loop counter
    draws,         \* the values getRandomInt returned during the call
    intCalls,      \* invocations of getRandomInt during the call
    byteCalls,     \* invocations of getRandomBytes during the call
    browserCalls,  \* invocations of window.crypto.getRandomValues
    nodeCalls,     \* invocations of crypto.randomBytes
    result,        \* what the call returned or threw
    probe          \* getSafetyLevel on its own: its argument and its value

vars == <<window, nodeCrypto, seed, step, pc, op, arg, max, length, id, i,
          draws, intCalls, byteCalls, browserCalls, nodeCalls, result, probe,
          constants, held>>

----------------------------------------------------------------------------
(* What a call hands to its caller.                                        *)

\* No object: the value of held before the first getConfig.
NoConfig ==
    [alias |-> FALSE, frozen |-> FALSE,
     fields |-> [DEFAULT_LENGTH |-> 0, MIN_LENGTH |-> 0, MAX_LENGTH |-> 0,
                 CHARSET |-> << >>]]

NoInfo == [safety |-> "", collisionProbability |-> << >>,
           recommendation |-> [text |-> "", number |-> << >>]]

\* A result: nothing yet, a returned value, or a thrown error.
Pending ==
    [status |-> "pending", id |-> << >>, info |-> NoInfo, num |-> << >>,
     bytes |-> << >>, config |-> NoConfig, charset |-> << >>, error |-> NoErr]

Thrown(e) == [Pending EXCEPT !.status = "thrown", !.error = e]

NoBound == OtherBound("none")

----------------------------------------------------------------------------
(* generate and generateWithInfo, between two invocations of the facility. *)

\* i < length, for the number a length parameter holds (only integers pass
\* validateLength; a fraction v + 1/2 compares as JavaScript compares it).
LoopTest(iv, len) ==
    CASE len.kind = "int" -> generate_Continues(iv, len.v)
      [] len.kind = "frac" -> generate_Continues(iv, len.v + 1)
      [] len.kind = "+inf" -> TRUE
      [] OTHER -> FALSE

\* A bound one short of the charset's length.
CharsetBound_Short == Bound(Bytes(Len(constants.CHARSET) - 1))

\* getRandomInt(charsetLength)
CharsetBound == Bound(Bytes(Len(constants.CHARSET)))

\* Risk fields that follow the number of draws the id took.
InfoOf_OfDraws(len) ==
    LET probability == calculateCollisionProbability(IF byteCalls >= len THEN len + 1 ELSE len)
        safety == getSafetyLevel(probability)
    IN  [safety |-> safety,
         collisionProbability |-> PercentString(probability),
         recommendation |-> getRecommendation(len, safety)]

\* The risk fields of generateWithInfo(length).
InfoOf(len) ==
    LET probability == calculateCollisionProbability(len)
        safety == getSafetyLevel(probability)
    IN  [safety |-> safety,
         collisionProbability |-> PercentString(probability),
         recommendation |-> getRecommendation(len, safety)]

\* What the public call returns once generate has returned idv.
Returned(o, len, idv) ==
    [Pending EXCEPT !.status = "returned", !.id = idv,
                    !.info = IF o = "generateWithInfo" THEN InfoOf(len.v) ELSE NoInfo]

\* generate from its loop header, with id = idv, i = iv, after ic calls of
\* getRandomInt that returned dv: up to the next invocation of
\* getRandomBytes, or to the end of the public call.
GenLoop(o, len, idv, iv, dv, ic) ==
    IF ~LoopTest(iv, len)
    THEN [pc |-> "done", id |-> idv, i |-> iv, draws |-> dv, intCalls |-> ic,
          max |-> NoBound, result |-> Returned(o, len, idv)]
    ELSE CASE getRandomInt_Entry(CharsetBound) = "throw" ->
                [pc |-> "done", id |-> idv, i |-> iv, draws |-> dv, intCalls |-> ic + 1,
                 max |-> NoBound,
                 result |-> Thrown(Err("CryptoGenerationError",
                                       "Maximum value must be a positive integer"))]
           [] getRandomInt_Entry(CharsetBound) = "zero" ->
                \* every remaining getRandomInt returns 0 at once
                LET rest == len.v - iv
                    full == idv \o [j \in 1..rest |-> constants.CHARSET[1]]
                IN  [pc |-> "done", id |-> full, i |-> len.v,
                     draws |-> dv \o [j \in 1..rest |-> 0], intCalls |-> ic + rest,
                     max |-> NoBound, result |-> Returned(o, len, full)]
           [] OTHER ->
                [pc |-> "draw", id |-> idv, i |-> iv, draws |-> dv, intCalls |-> ic + 1,
                 max |-> CharsetBound, result |-> Pending]

\* generate(a) or generateWithInfo(a) up to the first invocation of
\* getRandomBytes.  generateWithInfo validates, then generate validates again.
StartGenerate(o, a) ==
    LET len == DefaultParam(a, constants.DEFAULT_LENGTH)
        e1 == IF o = "generateWithInfo" THEN validateLength(len) ELSE NoErr
        e2 == validateLength(len)
        e == IF e1 # NoErr THEN e1 ELSE e2
    IN  IF e # NoErr
        THEN [len |-> len, pc |-> "done", id |-> << >>, i |-> 0, draws |-> << >>,
              intCalls |-> 0, max |-> NoBound, result |-> Thrown(e)]
        ELSE [len |-> len] @@ GenLoop(o, len, << >>, 0, << >>, 0)

CallGenerator(o, a, s, st) ==
    /\ pc = "idle"
    /\ \E nx \in {StartGenerate(o, a)} :
           /\ op' = o
           /\ arg' = a
           /\ length' = nx.len
           /\ pc' = nx.pc
           /\ id' = nx.id
           /\ i' = nx.i
           /\ draws' = nx.draws
           /\ intCalls' = nx.intCalls
           /\ max' = nx.max
           /\ result' = nx.result
    /\ seed' = s
    /\ step' = st
    /\ byteCalls' = 0
    /\ browserCalls' = 0
    /\ nodeCalls' = 0
    /\ UNCHANGED <<window, nodeCrypto, probe, constants, held>>

CallGenerate(a, s, st) == CallGenerator("generate", a, s, st)

CallGenerateWithInfo(a, s, st) == CallGenerator("generateWithInfo", a, s, st)

----------------------------------------------------------------------------
(* getRandomInt and getRandomBytes called by the user.                     *)

CallGetRandomInt(m, s, st) ==
    /\ pc = "idle"
    /\ op' = "getRandomInt"
    /\ arg' = Other("absent")
    /\ length' = Other("absent")
    /\ id' = << >>
    /\ i' = 0
    /\ draws' = << >>
    /\ intCalls' = 1
    /\ byteCalls' = 0
    /\ browserCalls' = 0
    /\ nodeCalls' = 0
    /\ max' = m
    /\ pc' = IF getRandomInt_Entry(m) = "loop" THEN "draw" ELSE "done"
    /\ result' =
         CASE getRandomInt_Entry(m) = "throw" ->
                Thrown(Err("CryptoGenerationError", "Maximum value must be a positive integer"))
           [] getRandomInt_Entry(m) = "zero" ->
                [Pending EXCEPT !.status = "returned", !.num = << >>]
           [] OTHER -> Pending
    /\ seed' = s
    /\ step' = st
    /\ UNCHANGED <<window, nodeCrypto, probe, constants, held>>

CallGetRandomBytes(n, s, st) ==
    /\ pc = "idle"
    /\ op' = "getRandomBytes"
    /\ arg' = n
    /\ length' = Other("absent")
    /\ id' = << >>
    /\ i' = 0
    /\ draws' = << >>
    /\ intCalls' = 0
    /\ byteCalls' = 0
    /\ browserCalls' = 0
    /\ nodeCalls' = 0
    /\ max' = NoBound
    /\ pc' = "draw"
    /\ result' = Pending
    /\ seed' = s
    /\ step' = st
    /\ UNCHANGED <<window, nodeCrypto, probe, constants, held>>

----------------------------------------------------------------------------
(* One invocation of getRandomBytes and what follows it.                   *)

\* The byte count the pending getRandomBytes is invoked with.
Wanted == IF op = "getRandomBytes" THEN arg ELSE Int_(bytesNeeded(max))

\* getRandomBytes(n) when the facility answers f ("ok", or the message of the
\* error it throws): the implementation invoked ("none" when the call throws
\* before any is), and the bytes returned or the error thrown.
getRandomBytes(n, w, nc, f, s, st) ==
    IF getRandomBytes_Invalid(n)
    THEN [invoked |-> "none", bytes |-> << >>,
          error |-> Err("CryptoGenerationError",
                        "Random bytes length must be a positive integer")]
    ELSE IF getCrypto(w, nc) = "throw"
    THEN [invoked |-> "none", bytes |-> << >>,
          error |-> Wrapped(NO_CRYPTO_MESSAGE)]
    ELSE LET impl == IF isBrowser(w) THEN "window.crypto" ELSE "crypto"
         IN  IF f # "ok"
             THEN [invoked |-> impl, bytes |-> << >>,
                   error |-> Wrapped(f)]
             ELSE [invoked |-> impl, bytes |-> FacilityBytes(s, st, n.v), error |-> NoErr]

\* The rest of the public call once getRandomBytes has answered r.
AfterBytes(r) ==
    IF r.error # NoErr
    THEN \* nothing catches the error: the public call throws it
         [pc |-> "done", id |-> id, i |-> i, draws |-> draws, intCalls |-> intCalls,
          max |-> max, result |-> Thrown(r.error)]
    ELSE IF op = "getRandomBytes"
    THEN [pc |-> "done", id |-> id, i |-> i, draws |-> draws, intCalls |-> intCalls,
          max |-> max, result |-> [Pending EXCEPT !.status = "returned", !.bytes = r.bytes]]
    ELSE IF ~accepted(r.bytes, max)
    THEN \* while (true): draw again
         [pc |-> "draw", id |-> id, i |-> i, draws |-> draws, intCalls |-> intCalls,
          max |-> max, result |-> Pending]
    ELSE IF op = "getRandomInt"
    THEN [pc |-> "done", id |-> id, i |-> i, draws |-> draws, intCalls |-> intCalls,
          max |-> max,
          result |-> [Pending EXCEPT !.status = "returned", !.num = masked(r.bytes, max)]]
    ELSE LET randomIndex == ToNat(masked(r.bytes, max))
         IN  GenLoop(op, length, Append(id, constants.CHARSET[randomIndex + 1]), i + 1,
                     Append(draws, randomIndex), intCalls)

Draw(f) ==
    /\ pc = "draw"
    /\ byteCalls < MaxDraws
    /\ \E r \in {getRandomBytes(Wanted, window, nodeCrypto, f, seed, step)} :
       \E nx \in {AfterBytes(r)} :
           /\ byteCalls' = byteCalls + 1
           /\ browserCalls' = browserCalls + (IF r.invoked = "window.crypto" THEN 1 ELSE 0)
           /\ nodeCalls' = nodeCalls + (IF r.invoked = "crypto" THEN 1 ELSE 0)
           /\ seed' = IF r.error = NoErr THEN (seed + Wanted.v * step) % 256 ELSE seed
           /\ pc' = nx.pc
           /\ id' = nx.id
           /\ i' = nx.i
           /\ draws' = nx.draws
           /\ intCalls' = nx.intCalls
           /\ max' = nx.max
           /\ result' = nx.result
    /\ UNCHANGED <<window, nodeCrypto, step, op, arg, length, probe, constants, held>>

\* The caller is done with the result.  Nothing of a call outlives it: its
\* parameters and locals are gone, and the modules keep no mutable state.
Forget ==
    /\ pc = "done"
    /\ pc' = "idle"
    /\ op' = "none"
    /\ arg' = Other("absent")
    /\ max' = NoBound
    /\ length' = Other("absent")
    /\ id' = << >>
    /\ i' = 0
    /\ draws' = << >>
    /\ intCalls' = 0
    /\ byteCalls' = 0
    /\ browserCalls' = 0
    /\ nodeCalls' = 0
    /\ result' = Pending
    /\ seed' = 0
    /\ step' = 1
    /\ UNCHANGED <<window, nodeCrypto, probe, constants, held>>

----------------------------------------------------------------------------
(* getCharset, getConfig, and what a caller can do to a snapshot.          *)

\* getConfig that hands out the CONSTANTS object itself.
getConfig_Leaked == [alias |-> TRUE, frozen |-> FALSE, fields |-> constants]

\* getConfig: Object.freeze({ ...CONSTANTS }), a frozen object of its own with
\* the properties CONSTANTS has at the call.
getConfig == [alias |-> FALSE, frozen |-> TRUE, fields |-> constants]

\* getCharset: CONSTANTS.CHARSET, a string.
getCharset == constants.CHARSET

\* A call that touches neither the random source nor generate's locals.
PlainCall(o, r) ==
    /\ pc = "idle"
    /\ pc' = "done"
    /\ op' = o
    /\ result' = r
    /\ UNCHANGED <<window, nodeCrypto, seed, step, arg, max, length, id, i, draws,
                   intCalls, byteCalls, browserCalls, nodeCalls, probe, constants>>

CallGetConfig ==
    /\ PlainCall("getConfig", [Pending EXCEPT !.status = "returned", !.config = getConfig])
    /\ held' = getConfig

CallGetCharset ==
    /\ PlainCall("getCharset", [Pending EXCEPT !.status = "returned", !.charset = getCharset])
    /\ UNCHANGED held

\* The properties of a snapshot and what the tests and a hostile caller try
\* to put there.
ConfigKeys == {"DEFAULT_LENGTH", "MIN_LENGTH", "MAX_LENGTH", "CHARSET"}

Assigned(fields, key) ==
    CASE key = "DEFAULT_LENGTH" -> [fields EXCEPT !.DEFAULT_LENGTH = 10]
      [] key = "MIN_LENGTH" -> [fields EXCEPT !.MIN_LENGTH = 1]
      [] key = "MAX_LENGTH" -> [fields EXCEPT !.MAX_LENGTH = 33]
      [] OTHER -> [fields EXCEPT !.CHARSET = <<"a", "b">>]

\* The caller writes a property of the snapshot it holds.  A frozen object
\* keeps its properties: Object.defineProperty and a strict-mode assignment
\* throw a TypeError, a sloppy-mode assignment is ignored.  An object that is
\* not frozen takes the value, and so does every holder of the same object.
MutateSnapshot(key, strict) ==
    /\ pc = "idle"
    /\ held # NoConfig
    /\ pc' = "done"
    /\ op' = "mutate"
    /\ IF held.frozen
       THEN /\ result' = IF strict
                         THEN Thrown(Err("TypeError", "Cannot redefine property: " \o key))
                         ELSE [Pending EXCEPT !.status = "returned"]
            /\ UNCHANGED <<held, constants>>
       ELSE /\ result' = [Pending EXCEPT !.status = "returned"]
            /\ held' = [held EXCEPT !.fields = Assigned(held.fields, key)]
            /\ constants' = IF held.alias THEN Assigned(constants, key) ELSE constants
    /\ UNCHANGED <<window, nodeCrypto, seed, step, arg, max, length, id, i, draws,
                   intCalls, byteCalls, browserCalls, nodeCalls, probe>>

\* The environment changes between calls (a test installs or deletes
\* global.window; a bundle runs where require('crypto') fails).
SetPlatform(w, nc) ==
    /\ pc = "idle"
    /\ <<w, nc>> # <<window, nodeCrypto>>
    /\ window' = w
    /\ nodeCrypto' = nc
    /\ UNCHANGED <<seed, step, pc, op, arg, max, length, id, i, draws, intCalls,
                   byteCalls, browserCalls, nodeCalls, result, probe, constants, held>>

----------------------------------------------------------------------------

NoProbe == [probability |-> 0, safety |-> "none"]

Idle ==
    /\ seed = 0
    /\ step = 1
    /\ pc = "idle"
    /\ op = "none"
    /\ arg = Other("absent")
    /\ max = NoBound
    /\ length = Other("absent")
    /\ id = << >>
    /\ i = 0
    /\ draws = << >>
    /\ intCalls = 0
    /\ byteCalls = 0
    /\ browserCalls = 0
    /\ nodeCalls = 0
    /\ result = Pending

Init ==
    /\ window \in BOOLEAN
    /\ nodeCrypto \in BOOLEAN
    /\ Idle
    /\ probe = NoProbe
    /\ constants = CONSTANTS_OBJECT
    /\ held = NoConfig

Next ==
    \/ \E a \in LengthArgs, s \in Seeds, st \in Steps : CallGenerate(a, s, st)
    \/ \E a \in LengthArgs, s \in Seeds, st \in Steps : CallGenerateWithInfo(a, s, st)
    \/ \E m \in BoundArgs, s \in Seeds, st \in Steps : CallGetRandomInt(m, s, st)
    \/ \E n \in ByteCountArgs, s \in Seeds, st \in Steps : CallGetRandomBytes(n, s, st)
    \/ \E f \in {"ok"} \cup FacilityErrors : Draw(f)
    \/ CallGetConfig
    \/ CallGetCharset
    \/ \E key \in ConfigKeys, strict \in BOOLEAN : MutateSnapshot(key, strict)
    \/ Forget
    \/ \E w \in BOOLEAN, nc \in BOOLEAN : SetPlatform(w, nc)

Spec == Init /\ [][Next]_vars

\* A call in progress goes on running: the code between two invocations of
\* getRandomBytes has no wait in it, and the invocation itself returns or
\* throws.
Running == WF_vars(\E f \in {"ok"} \cup FacilityErrors : Draw(f))

SpecLive == Init /\ [][Next]_vars /\ Running

----------------------------------------------------------------------------
(* getSafetyLevel applied to probabilities around its thresholds.          *)

ProbeRadius == 20

ProbabilityProbes ==
    UNION {{p \in (c - ProbeRadius)..(c + ProbeRadius) : p >= 0 /\ p <= PROB_SCALE} :
           c \in {0, COLLISION_THRESHOLDS.safe, COLLISION_THRESHOLDS.moderate, PROB_SCALE}}

InitSafety ==
    /\ window = FALSE
    /\ nodeCrypto = TRUE
    /\ Idle
    /\ constants = CONSTANTS_OBJECT
    /\ held = NoConfig
    /\ probe \in {[probability |-> p, safety |-> "unclassified"] : p \in ProbabilityProbes}

Classify ==
    /\ probe.safety = "unclassified"
    /\ probe' = [probe EXCEPT !.safety = getSafetyLevel(probe.probability)]
    /\ UNCHANGED <<window, nodeCrypto, seed, step, pc, op, arg, max, length, id, i,
                   draws, intCalls, byteCalls, browserCalls, nodeCalls, result,
                   constants, held>>

NextSafety == Classify

SpecSafety == InitSafety /\ [][NextSafety]_vars

----------------------------------------------------------------------------
(* Properties.                                                             *)

Generators == {"generate", "generateWithInfo"}

\* The length the caller asked for is an integer of [7, 32].
ValidLengthArg == arg.kind = "int" /\ arg.v >= 7 /\ arg.v <= 32

\* No length was passed: the argument is missing or undefined.
NoLengthArg == arg.kind \in {"absent", "undefined"}

CharsetMembers == {CHARSET[k] : k \in 1..Len(CHARSET)}

\* parseFloat of a percentage string, in thousandths of a percent.
PercentMilli(cs) ==
    LET digit(c) == CHOOSE d \in 0..9 : DigitChar(d) = c
        ds == SelectSeq(cs, LAMBDA c : c \in {DigitChar(d) : d \in 0..9})
    IN  NatOf([j \in 1..Len(ds) |-> digit(ds[j])])

\* C1: for every integer length of [7, 32] and whatever the random source
\* delivers, generate(length) is not refused by the validation, and the string
\* it returns has exactly length characters, each one a member of the
\* 62-character charset.
C1_GenerateLengthAndCharset ==
    (op = "generate" /\ ValidLengthArg) =>
        /\ result.error.name # "ZapidValidationError"
        /\ (pc = "done" /\ result.status = "returned") =>
              /\ Len(result.id) = arg.v
              /\ \A k \in 1..Len(result.id) : result.id[k] \in CharsetMembers
              /\ Cardinality(CharsetMembers) = 62

C1_Witness ==
    /\ op = "generate" /\ pc = "done" /\ result.status = "returned"
    /\ arg = Int_(32)
    /\ Len(result.id) = 32

C4_StartsAsSeven ==
    (pc = "idle" /\ op' \in Generators /\ arg'.kind \in {"absent", "undefined"}) =>
        \E nx \in {StartGenerate(op', Int_(7))} :
            /\ length' = nx.len
            /\ pc' = nx.pc
            /\ id' = nx.id
            /\ i' = nx.i
            /\ draws' = nx.draws
            /\ intCalls' = nx.intCalls
            /\ max' = nx.max
            /\ result' = nx.result

C4_EndsAsSeven ==
    (op \in Generators /\ NoLengthArg) =>
        /\ length = Int_(7)
        /\ result.error.name # "ZapidValidationError"
        /\ (pc = "done" /\ result.status = "returned") =>
              /\ intCalls = 7
              /\ Len(draws) = 7
              /\ result.id = [k \in 1..7 |-> CHARSET[draws[k] + 1]]
              /\ result.info = (IF op = "generateWithInfo" THEN InfoOf(7) ELSE NoInfo)

C4_DefaultIsSeven == [][C4_StartsAsSeven]_vars /\ []C4_EndsAsSeven

C4_Witness ==
    /\ op = "generateWithInfo" /\ pc = "done" /\ result.status = "returned"
    /\ arg.kind = "undefined"
    /\ Len(result.id) = 7

\* C5: generateWithInfo(7) returns safety 'safe', a collisionProbability of
\* about '0.001%' or lower, and the recommendation that contains the total
\* combination count.
C5_LengthSevenIsSafe ==
    (op = "generateWithInfo" /\ pc = "done" /\ result.status = "returned"
       /\ arg = Int_(7)) =>
        /\ result.info.safety = "safe"
        /\ PercentMilli(result.info.collisionProbability) <= 1
        /\ result.info.recommendation.number # << >>

\* C6: a collision probability p classifies as 'safe' when p < 0.001, as
\* 'moderate' when 0.001 <= p < 0.1 and as 'high-risk' when p >= 0.1: each
\* boundary belongs to the riskier tier (0 is safe, exactly 0.001 is moderate,
\* exactly 0.1 is high-risk), and every p has exactly one tier.
C6_TierBoundaries ==
    probe.safety \notin {"none", "unclassified"} =>
        LET p == probe.probability
            promille == PROB_SCALE \div 1000
            tenth == PROB_SCALE \div 10
        IN  /\ probe.safety \in {"safe", "moderate", "high-risk"}
            /\ probe.safety = "safe" <=> p < promille
            /\ probe.safety = "moderate" <=> (promille <= p /\ p < tenth)
            /\ probe.safety = "high-risk" <=> p >= tenth

C6_Witness ==
    probe = [probability |-> PROB_SCALE \div 1000, safety |-> "moderate"]

\* generateWithInfo has returned its record for a valid length.
InfoReturned ==
    /\ op = "generateWithInfo"
    /\ pc = "done"
    /\ result.status = "returned"

\* The safety, percentage and recommendation text of a record agree.
FieldsAgree(info) ==
    LET milli == PercentMilli(info.collisionProbability)
        text == info.recommendation.text
    IN  /\ info.safety \in {"safe", "moderate", "high-risk"}
        /\ info.safety = "safe" =>
              /\ milli < 100
              /\ text = "Safe for up to 100k IDs. Total possible combinations: "
        /\ info.safety = "moderate" =>
              /\ milli >= 100 /\ milli < 10000
              /\ text = "Moderate collision risk. Consider increasing length for large-scale use."
        /\ info.safety = "high-risk" =>
              /\ milli >= 10000
              /\ text = "High collision risk. Increase length or reduce number of IDs."

\* The records of generateWithInfo for all the valid lengths.
InfoTable == [L \in MIN_LENGTH..MAX_LENGTH |-> InfoOf(L)]

\* C7 as stated: in every record generateWithInfo returns for a valid length
\* the three risk fields agree (safe: percentage below 0.1 and the text with
\* the combination count; moderate: percentage in [0.1, 10) and the moderate
\* text; high-risk: percentage at least 10 and the high collision risk text),
\* and the recommendation is a function of the safety tier alone: two records
\* of the same tier carry the same recommendation.
C7_RecommendationOfTierAlone ==
    InfoReturned =>
        /\ FieldsAgree(result.info)
        /\ \E table \in {InfoTable} : \A L \in MIN_LENGTH..MAX_LENGTH :
              table[L].safety = result.info.safety =>
                  table[L].recommendation = result.info.recommendation

\* C7 (amended): the three risk fields agree as stated, and the tier alone
\* selects the recommendation's text; the 'safe' recommendation ends with the
\* combination count 62^length of the record's own length, so that it is a
\* function of the tier and the length, while the other two carry no number.
C7_TextOfTierAlone ==
    InfoReturned =>
        /\ FieldsAgree(result.info)
        /\ \E table \in {InfoTable} : \A L \in MIN_LENGTH..MAX_LENGTH :
              table[L].safety = result.info.safety =>
                  table[L].recommendation.text = result.info.recommendation.text
        /\ result.info.recommendation.number =
              (IF result.info.safety = "safe"
               THEN toExponential2(PowLimbs(62, length.v))
               ELSE << >>)
        /\ result.info.safety = "safe" => result.info.recommendation.number # << >>

C7_Witness ==
    /\ InfoReturned
    /\ arg = Int_(9)
    /\ result.info.safety = "safe"
    /\ result.info.recommendation.number # InfoOf(8).recommendation.number

\* The value with the bytes v, as the 32-bit word the mask leaves.
WordOf(v) == [j \in 1..4 |-> IF j + Len(v) > 4 THEN v[j + Len(v) - 4] ELSE 0]

\* The number of the 256^n byte vectors of one draw of n bytes that
\* getRandomInt accepts with the value v under the mask mk (in base 10000): no
\* vector when v does not fit the packed word, and otherwise, byte by byte of
\* the word, the bytes that the mask takes to the byte of v, times 256 for
\* each byte packed out of the word.
Preimages(v, mk, n) ==
    LET inWord == IF n < 4 THEN n ELSE 4
        word == WordOf(v)
        choices(j) ==
            IF j <= 4 - inWord
            THEN (IF And8(0, mk[j]) = word[j] THEN 1 ELSE 0)
            ELSE Cardinality({b \in 0..255 : And8(b, mk[j]) = word[j]})
        over(k) == IF k > 4 THEN 256 ELSE choices(k)
        prod[k \in 0..(4 + n - inWord)] ==
            IF k = 0 THEN <<1>> ELSE MulSmall(prod[k - 1], over(k), 10000)
    IN  IF Len(v) > 4 THEN <<0>> ELSE StripZeros(prod[4 + n - inWord])

\* The values of [0, max) the count is compared on.
ProbeValues(m) ==
    {v \in {Bytes(k) : k \in 1..SmallBoundMax} \cup {Dec(Norm(m.v))} : Less(v, m.v)}

\* C8: for every integer max >= 1 getRandomInt(max) is uniform over [0, max):
\* a returned value v satisfies 0 <= v < max, and every value of [0, max) is
\* the accepted outcome of the same, positive, number of the 256^bytesNeeded
\* byte vectors of one draw, also when bitsNeeded reaches 31 and more.
C8_UniformForEveryMax ==
    (op = "getRandomInt" /\ ~getRandomInt_Invalid(max) /\ ~getRandomInt_IsOne(max)) =>
        /\ (pc = "done" /\ result.status = "returned") => Less(result.num, max.v)
        /\ \E mk \in {mask(max)} : \E n \in {bytesNeeded(max)} :
           \E zero \in {Preimages(<< >>, mk, n)} :
              /\ zero # <<0>>
              /\ \A v \in ProbeValues(max) : Preimages(v, mk, n) = zero

\* C9: getRandomInt(1) returns 0 at once, without any call of getRandomBytes
\* or of the platform facility, whatever the platform is: also where no
\* facility is available or where it would throw.
C9_OneReturnsZeroWithoutBytes ==
    (op = "getRandomInt" /\ max = Bound(<<1>>)) =>
        /\ pc = "done"
        /\ result.status = "returned"
        /\ result.num = << >>
        /\ result.error = NoErr
        /\ byteCalls = 0
        /\ browserCalls = 0
        /\ nodeCalls = 0

C9_Witness ==
    /\ op = "getRandomInt" /\ max = Bound(<<1>>)
    /\ ~window /\ ~nodeCrypto
    /\ pc = "done" /\ result.status = "returned" /\ result.num = << >>

\* The argument is a positive integer.
PositiveInt(x) == x.kind = "int" /\ x.v >= 1
PositiveBound(m) == m.kind = "int" /\ ~m.neg /\ Norm(m.v) # << >>

\* The call threw the error of an argument refused before the facility.
Refused(msg) ==
    /\ pc = "done"
    /\ result.status = "thrown"
    /\ result.error = Err("CryptoGenerationError", msg)
    /\ byteCalls <= 1
    /\ browserCalls = 0
    /\ nodeCalls = 0

\* C10: getRandomBytes(n) and getRandomInt(max) refuse every argument that is
\* not a positive integer (0, negative, fraction, NaN, +-Infinity) with a
\* CryptoGenerationError, before the platform facility is touched (it is
\* invoked zero times); and a getRandomBytes(n) that succeeds for a positive
\* integer n returns exactly n bytes, each one in 0..255.
C10_ArgumentsChecked ==
    /\ (op = "getRandomBytes" /\ pc # "draw" /\ ~PositiveInt(arg)) =>
           Refused("Random bytes length must be a positive integer")
    /\ (op = "getRandomInt" /\ ~PositiveBound(max)) =>
           /\ Refused("Maximum value must be a positive integer")
           /\ byteCalls = 0
    /\ (op = "getRandomBytes" /\ pc = "done" /\ result.status = "returned") =>
           /\ PositiveInt(arg)
           /\ Len(result.bytes) = arg.v
           /\ \A k \in 1..Len(result.bytes) : result.bytes[k] \in 0..255

C10_Witness ==
    /\ op = "getRandomBytes" /\ pc = "done"
    /\ arg = Int_(0)
    /\ result.status = "thrown"
    /\ browserCalls = 0 /\ nodeCalls = 0

\* The facility invocations of the call so far are all of the one facility
\* the probe detects on the platform the call runs on.
OneFacility ==
    /\ window => nodeCalls = 0
    /\ ~window => browserCalls = 0
    /\ browserCalls + nodeCalls <= byteCalls

\* One call of getRandomBytes invokes at most one facility, once, and it is
\* the detected one.
OneFacilityPerCall ==
    byteCalls' = byteCalls + 1 =>
        /\ (browserCalls' - browserCalls) + (nodeCalls' - nodeCalls) <= 1
        /\ window => (nodeCalls' = nodeCalls)
        /\ (~window /\ browserCalls' = browserCalls)
             => (nodeCalls' = nodeCalls + 1 <=>
                    (nodeCrypto /\ ~getRandomBytes_Invalid(Wanted)))
        /\ (window /\ ~getRandomBytes_Invalid(Wanted)) => browserCalls' = browserCalls + 1
        /\ (result'.status = "returned" /\ op = "getRandomBytes") =>
              (browserCalls' - browserCalls) + (nodeCalls' - nodeCalls) = 1

\* C11: every getRandomBytes call uses exactly one facility, chosen by the
\* probe made during the call: where window.crypto is detected its
\* getRandomValues is invoked and the native facility is not, otherwise the
\* native crypto.randomBytes is invoked; the bytes of a result come from one
\* facility, and a detected facility is never replaced by the other one in
\* the same call, also when it fails.
C11_ExactlyOneFacility == []OneFacility /\ [][OneFacilityPerCall]_vars

C11_Witness ==
    /\ op = "getRandomBytes" /\ pc = "done"
    /\ window /\ nodeCrypto
    /\ result.status = "thrown"
    /\ browserCalls = 1
    /\ nodeCalls = 0

\* A call that meets a failing or missing facility ends at once with the
\* wrapped error, and returns nothing.
FailureSurfaces ==
    /\ \A f \in FacilityErrors :
          (Draw(f) /\ ~getRandomBytes_Invalid(Wanted)) =>
              /\ pc' = "done"
              /\ result' = Thrown(Err("CryptoGenerationError",
                     "Failed to generate random bytes: "
                        \o (IF ~window /\ ~nodeCrypto THEN NO_CRYPTO_MESSAGE ELSE f)))
              /\ browserCalls' + nodeCalls' <= browserCalls + nodeCalls + 1
    /\ (pc = "draw" /\ ~window /\ ~nodeCrypto /\ ~getRandomBytes_Invalid(Wanted)
          /\ byteCalls' = byteCalls + 1) =>
              /\ pc' = "done"
              /\ result' = Thrown(Err("CryptoGenerationError",
                     "Failed to generate random bytes: " \o NO_CRYPTO_MESSAGE))
              /\ browserCalls' = browserCalls /\ nodeCalls' = nodeCalls
    /\ (pc = "done" /\ result.status = "thrown") =>
          (pc' # "draw" /\ (pc' = "done" => UNCHANGED vars))

\* What a call that threw leaves to its caller: no id, no record, no number,
\* no bytes; in generate the failing draw was the k-th, for a k of 1..length.
NothingReturned ==
    (pc = "done" /\ result.status = "thrown") =>
        /\ result.id = << >>
        /\ result.info = NoInfo
        /\ result.num = << >>
        /\ result.bytes = << >>
        /\ (op \in Generators /\ result.error.name = "CryptoGenerationError") =>
              /\ intCalls = Len(id) + 1
              /\ intCalls >= 1 /\ intCalls <= length.v
              /\ Len(id) < length.v

\* C12: when the facility is unavailable or throws during a draw, the failure
\* surfaces at once as a CryptoGenerationError wrapping the message of the
\* cause: the facility is not called again, the rejection loop of getRandomInt
\* does not go on, and a generate or generateWithInfo whose k-th draw fails
\* (k = 1..length) throws and returns no string or record, never a shorter
\* id.
C12_FailureSurfacesAtOnce == [][FailureSurfaces]_vars /\ []NothingReturned

C12_Witness ==
    /\ op = "generateWithInfo" /\ pc = "done"
    /\ arg = Int_(32)
    /\ result.status = "thrown"
    /\ result.error = Err("CryptoGenerationError",
                          "Failed to generate random bytes: Crypto generation failed")
    /\ Len(id) = 31
    /\ result.id = << >>

\* The configuration the module is built with, written out.
ExpectedConfig ==
    [DEFAULT_LENGTH |-> 7, MIN_LENGTH |-> 7, MAX_LENGTH |-> 32, CHARSET |-> CHARSET]

\* Every snapshot in sight is frozen and holds the configuration; the charset
\* and the limits validateLength enforces are the configured ones.
ConfigKept ==
    /\ constants = ExpectedConfig
    /\ getCharset = CHARSET
    /\ Len(getCharset) = 62
    /\ held # NoConfig =>
          /\ held.frozen
          /\ held.fields = ExpectedConfig
          /\ held.fields.CHARSET = getCharset
    /\ (op = "getConfig" /\ pc = "done") =>
          /\ result.status = "returned"
          /\ result.config.frozen
          /\ result.config.fields = ExpectedConfig
          /\ result.config.fields.CHARSET = getCharset
    /\ (op = "getCharset" /\ pc = "done") =>
          /\ result.status = "returned"
          /\ result.charset = CHARSET
    /\ validateLength(Int_(6)).message = "ID length must be at least 7 characters"
    /\ validateLength(Int_(7)) = NoErr
    /\ validateLength(Int_(32)) = NoErr
    /\ validateLength(Int_(33)).message = "ID length cannot exceed 32 characters"

\* A later getConfig returns what the earlier one returned, and an attempt to
\* write a snapshot is refused or ignored: it changes no object.
ConfigSteps ==
    /\ (op' = "getConfig" /\ pc' = "done" /\ held # NoConfig) =>
          /\ held'.fields = held.fields
          /\ result'.config = held
    /\ (op' = "mutate" /\ pc' = "done" /\ pc = "idle") =>
          /\ held' = held
          /\ constants' = constants
          /\ \/ result'.status = "returned"
             \/ result'.status = "thrown" /\ result'.error.name = "TypeError"
    /\ held # NoConfig => held' = held

\* C13: after any sequence of generate, generateWithInfo, getCharset and
\* getConfig calls and of attempts to write returned snapshots, getConfig()
\* returns a frozen record equal to {DEFAULT_LENGTH 7, MIN_LENGTH 7, MAX_LENGTH
\* 32, CHARSET = getCharset()}: two calls return equal values, a write to a
\* snapshot is refused or has no effect, and it never changes a later
\* snapshot, the charset, or the limits validation enforces.
C13_ConfigIsReadOnly == []ConfigKept /\ [][ConfigSteps]_vars

C13_Witness ==
    /\ op = "mutate" /\ pc = "done"
    /\ result.status = "thrown"
    /\ result.error = Err("TypeError", "Cannot redefine property: DEFAULT_LENGTH")
    /\ held.fields.DEFAULT_LENGTH = 7

\* 2^k as a natural in bytes.
Pow2Bytes(k) == <<Pow2(k % 8)>> \o [j \in 1..(k \div 8) |-> 0]

\* C14: for every integer max >= 2, with bitsNeeded = ceil(log2(max)) and
\* mask = (1 << bitsNeeded) - 1, fewer than half of the 2^bitsNeeded masked
\* values are rejected: 2^(bitsNeeded - 1) < max <= 2^bitsNeeded and
\* mask >= max - 1 (the mask taken as the bits that & keeps).
C14_MaskCoversRange ==
    (op = "getRandomInt" /\ ~getRandomInt_Invalid(max) /\ ~getRandomInt_IsOne(max)) =>
        /\ Less(Pow2Bytes(bitsNeeded(max) - 1), Norm(max.v))
        /\ ~Less(Pow2Bytes(bitsNeeded(max)), Norm(max.v))
        /\ ~Less(Norm(mask(max)), Dec(Norm(max.v)))

\* getRandomInt is in its loop, about to draw.
InLoop == op = "getRandomInt" /\ pc = "draw"

\* The bytes the facility delivers to the k-th draw from now (k = 0 is the
\* next one), if it delivers.
FutureBytes(k) ==
    FacilityBytes((seed + k * bytesNeeded(max) * step) % 256, step, bytesNeeded(max))

\* One iteration of the loop of getRandomInt.
LoopStep ==
    (InLoop /\ byteCalls' = byteCalls + 1) =>
        \E fresh \in {FutureBytes(0)} : \E value \in {masked(fresh, max)} :
            /\ Wanted = Int_(bytesNeeded(max))
            /\ Len(fresh) = bytesNeeded(max)
            /\ bytesNeeded(max) <= 3 => ToNat(value) = ToNat(fresh) % Pow2(bitsNeeded(max))
            /\ result'.status \in {"returned", "pending", "thrown"}
            /\ result'.status = "returned" =>
                  /\ pc' = "done"
                  /\ result'.num = value
                  /\ Less(value, max.v)
            /\ result'.status = "pending" =>
                  /\ pc' = "draw"
                  /\ ~Less(value, max.v)
                  /\ max' = max /\ op' = op /\ step' = step
                  /\ draws' = draws /\ id' = id /\ i' = i /\ intCalls' = intCalls
                  /\ seed' = (seed + bytesNeeded(max) * step) % 256
            /\ result'.status = "thrown" =>
                  /\ pc' = "done"
                  /\ \E f \in FacilityErrors \cup {NO_CRYPTO_MESSAGE} :
                        result'.error = Err("CryptoGenerationError",
                                            "Failed to generate random bytes: " \o f)
                  /\ (browserCalls' + nodeCalls' > browserCalls + nodeCalls
                        \/ (~window /\ ~nodeCrypto))

\* The loop is never left for the number of its rejections: while the call
\* has neither returned nor thrown it is about to draw again.
NeverGivesUp ==
    (op = "getRandomInt" /\ result.status = "pending") => pc = "draw"

\* The source delivers an acceptable draw within the draws that are followed.
AcceptableAhead ==
    \E k \in 0..(MaxDraws - byteCalls - 1) : Less(masked(FutureBytes(k), max), max.v)

\* C15: for max >= 2 getRandomInt runs an unbounded rejection loop: each
\* iteration requests exactly bytesNeeded fresh bytes, packs them big-endian,
\* applies the mask and returns the value if and only if it is < max; a
\* rejected value is discarded and influences no later draw.  The call
\* returns the masked value of the first accepted draw, never gives up for
\* the number of rejections, and ends if the source eventually delivers a
\* draw whose masked value is < max.
C15_RejectionLoop ==
    /\ [][LoopStep]_vars
    /\ []NeverGivesUp
    /\ (InLoop /\ AcceptableAhead) ~> (op = "getRandomInt" /\ pc = "done")

C15_Witness ==
    /\ op = "getRandomInt" /\ pc = "done"
    /\ result.status = "returned"
    /\ byteCalls >= 3
    /\ browserCalls + nodeCalls = byteCalls

\* generate is past its validation.
Generating ==
    /\ op \in Generators
    /\ result.error.name # "ZapidValidationError"

\* The id built so far is the charset characters of the draws made so far,
\* in their order; each draw has the bound 62.
DrawsInOrder ==
    Generating =>
        /\ Len(id) = Len(draws)
        /\ i = Len(id)
        /\ \A k \in 1..Len(draws) :
              /\ draws[k] \in 0..61
              /\ id[k] = CHARSET[draws[k] + 1]
        /\ pc = "draw" =>
              /\ max = Bound(<<62>>)
              /\ intCalls = Len(id) + 1
              /\ Len(id) < length.v
        /\ (pc = "done" /\ result.status = "returned") =>
              /\ intCalls = length.v
              /\ Len(draws) = length.v
              /\ result.id = id

\* A draw that is accepted adds one character at the end and changes nothing
\* before it; a rejected one adds nothing.
OneCharacterPerDraw ==
    (Generating /\ pc = "draw" /\ byteCalls' = byteCalls + 1) =>
        \/ /\ id' = id
           /\ draws' = draws
           /\ intCalls' = intCalls
        \/ /\ Len(id') = Len(id) + 1
           /\ SubSeq(id', 1, Len(id)) = id
           /\ SubSeq(draws', 1, Len(draws)) = draws
           /\ intCalls' = IF pc' = "draw" THEN intCalls + 1 ELSE intCalls

\* C16: a generate(length) that succeeds makes exactly length index draws,
\* each with the exclusive bound 62, one per position from left to right, and
\* the character at position i is the charset character at the index the i-th
\* draw returned: no draw is skipped, used twice, reordered or shuffled.
\* generateWithInfo(length) consumes the same length draws.
C16_OneDrawPerPosition == []DrawsInOrder /\ [][OneCharacterPerDraw]_vars

C16_Witness ==
    /\ op = "generateWithInfo" /\ pc = "done" /\ result.status = "returned"
    /\ arg = Int_(32)
    /\ intCalls = 32
    /\ byteCalls > 32
    /\ result.id[1] # result.id[2]

\* The risk fields of every valid length, written out from the formula
\* 1 - exp(-100000 * 99999 / (2 * 62^L)): 0.142% for 7, 0.002% for 8 and
\* below 0.0005% from 9 on.
ExpectedInfo ==
    [L \in 7..32 |->
        [safety |-> IF L = 7 THEN "moderate" ELSE "safe",
         collisionProbability |->
            IF L = 7 THEN <<"0", ".", "1", "4", "2", "%">>
            ELSE IF L = 8 THEN <<"0", ".", "0", "0", "2", "%">>
            ELSE <<"0", ".", "0", "0", "0", "%">>,
         recommendation |->
            IF L = 7
            THEN [text |-> "Moderate collision risk. Consider increasing length for large-scale use.",
                  number |-> << >>]
            ELSE [text |-> "Safe for up to 100k IDs. Total possible combinations: ",
                  number |-> toExponential2(PowLimbs(62, L))]]]

\* C17: the safety, collisionProbability and recommendation of
\* generateWithInfo(length) are a function of length alone: whatever the random
\* source delivered (whatever the id is) and whatever calls were made before,
\* the three fields are the ones the length has in one fixed table.
C17_InfoOfLengthAlone ==
    InfoReturned => result.info = ExpectedInfo[length.v]

C17_Witness ==
    /\ InfoReturned
    /\ arg = Int_(7)
    /\ byteCalls > 7
    /\ held # NoConfig
    /\ result.info.collisionProbability = <<"0", ".", "1", "4", "2", "%">>

\* The tiers from the safest to the riskiest.
Rank(safety) ==
    CASE safety = "safe" -> 0
      [] safety = "moderate" -> 1
      [] OTHER -> 2

\* The collision probabilities of the valid lengths.
ProbabilityTable == [L \in MIN_LENGTH..MAX_LENGTH |-> calculateCollisionProbability(L)]

\* C18: for every valid length of [7, 32] generateWithInfo never reports
\* 'high-risk', and the tier never gets worse as the length grows: for valid
\* L1 < L2 the tier of L2 is the tier of L1 or a safer one, the collision
\* probability for 100000 ids being non-increasing in the length.
C18_TierNeverWorsens ==
    InfoReturned =>
        \E p \in {ProbabilityTable} :
            /\ result.info.safety # "high-risk"
            /\ result.info.safety = getSafetyLevel(p[length.v])
            /\ \A L2 \in MIN_LENGTH..MAX_LENGTH :
                  L2 > length.v =>
                      /\ p[L2] <= p[length.v]
                      /\ getSafetyLevel(p[L2]) # "high-risk"
                      /\ Rank(getSafetyLevel(p[L2])) <= Rank(result.info.safety)

C18_Witness ==
    /\ InfoReturned
    /\ length = Int_(7)
    /\ result.info.safety = "moderate"
    /\ getSafetyLevel(calculateCollisionProbability(8)) = "safe"
    /\ calculateCollisionProbability(8) < calculateCollisionProbability(7)

====
